---- MODULE Spec2Model ----
\* CPenguinParallel.h: forced-inline wrappers around the C11 <stdatomic.h>
\* operations on a 64-bit cell (struct CAtomicUInt64, the nbc_ functions) and
\* an 8-bit cell (struct CAtomicUInt8, the ac_ functions).
\*
\* Every wrapper is one call of a C11 atomic operation with fixed memory
\* orders, so the model consists of
\*   - the C11 operations, as an operational release/acquire memory: each
\*     cell is the sequence of the writes made to it (its modification
\*     order), each write carries the view its writer released, and each
\*     thread has a view saying which writes it may no longer ignore;
\*   - the wrappers, each the call the header makes, with its orders;
\*   - client programs that call the wrappers (one per specification).
\* A write takes its place at the end of the cell's modification order.
\* A 64-bit value is four 16-bit limbs, least significant first.
EXTENDS Integers, Sequences, FiniteSets, TLC

VARIABLES
  mem,   \* cell -> sequence of writes [val, view, rmw], in modification order
  tv,    \* thread -> [cur, acq, rel]: its view, what an acquire fence would
         \* add to it, and its view at its last release fence
  scv,   \* the view of the sequentially consistent operations so far
  res,   \* the last call of a wrapper: who, what, arguments, results
  pc,    \* the client program's position
  reg    \* the client program's locals

vars == <<mem, tv, scv, res, pc, reg>>

----------------------------------------------------------------------------
(* Bounds of the model *)

NThreads == 3
MaxOps == 2
IncrementsPerThread == 2
MaxAttempts == 2
MaxStores == 2

----------------------------------------------------------------------------
(* Values *)

Base == 2^16

\* uint64_t of a natural number below 2^31
U64(n) == <<n % Base, (n \div Base) % Base, 0, 0>>

U64Max == <<Base - 1, Base - 1, Base - 1, Base - 1>>

RECURSIVE AddLimbs(_, _, _, _)
AddLimbs(a, b, i, carry) ==
  IF i > Len(a) THEN <<>>
  ELSE LET s == a[i] + b[i] + carry
       IN <<s % Base>> \o AddLimbs(a, b, i + 1, s \div Base)

RECURSIVE SubLimbs(_, _, _, _)
SubLimbs(a, b, i, borrow) ==
  IF i > Len(a) THEN <<>>
  ELSE LET d == a[i] - b[i] - borrow
       IN <<d % Base>> \o SubLimbs(a, b, i + 1, IF d < 0 THEN 1 ELSE 0)

\* an addition that drops the carries between the limbs
U64AddNoCarry(a, b) == [i \in 1..Len(a) |-> (a[i] + b[i]) % Base]

\* unsigned 64-bit addition and subtraction: the carry out of the top limb is lost
U64Add(a, b) == AddLimbs(a, b, 1, 0)

U64Sub(a, b) == SubLimbs(a, b, 1, 0)

Val64 == {U64(0), U64Max}
Val8 == {0, 255}

\* the values the client programs use
ScenVal64 == {U64(0), U64(1), U64Max}
ScenVal8 == {0, 1, 255}

None == "none"

----------------------------------------------------------------------------
(* Cells, threads, views *)

Cell64 == {"X", "Y"}
Cell8 == {"F"}
Plain == {"D"}
Loc == Cell64 \cup Cell8 \cup Plain

Thread == 1..NThreads

\* the threads that have a view: the counter's threads and the four threads of
\* the other client programs
Proc == Thread \cup 1..4

Max(a, b) == IF a >= b THEN a ELSE b
Bot == [l \in Loc |-> 1]
Join(v, w) == [l \in Loc |-> Max(v[l], w[l])]

Latest(obj) == mem[obj][Len(mem[obj])].val

IsAcquire(order) == order \in {"acquire", "acq_rel", "seq_cst"}
IsRelease(order) == order \in {"release", "acq_rel", "seq_cst"}

\* a seq_cst access is a seq_cst fence followed by the access as an acquire
\* or release: it starts from everything the earlier seq_cst operations saw,
\* and what it had seen before the access is what the later ones start from
Pre(t, order) == IF order = "seq_cst" THEN Join(tv[t].cur, scv) ELSE tv[t].cur
Post(c, order) == IF order = "seq_cst" THEN Join(scv, c) ELSE scv

Outcome(m, v, s, ok, ret, out, rd, wr) ==
  [mem |-> m, tv |-> v, scv |-> s, ok |-> ok, ret |-> ret, out |-> out,
   rd |-> rd, wr |-> wr]

----------------------------------------------------------------------------
(* The C11 operations the header calls *)

\* a 64-bit load done as two 32-bit loads, each of which may read another write
atomic_load_explicit_torn(t, obj, order) ==
  LET pre == Pre(t, order) IN
  { LET m == mem[obj][i]
        lo == mem[obj][j].val
        val == IF obj \in Cell64
               THEN [k \in 1..4 |-> IF k <= 2 THEN lo[k] ELSE m.val[k]]
               ELSE m.val
        rdv == [pre EXCEPT ![obj] = i]
        seen == Join(rdv, m.view)
        c == IF IsAcquire(order) THEN seen ELSE rdv
    IN Outcome(mem,
               [cur |-> c, acq |-> Join(tv[t].acq, seen), rel |-> tv[t].rel],
               Post(pre, order), TRUE, val, None, i, 0)
    : i \in pre[obj]..Len(mem[obj]), j \in pre[obj]..Len(mem[obj]) }

\* atomic_load_explicit: reads any write of the cell the thread may still
\* read; an acquire load takes over the view that write released
atomic_load_explicit(t, obj, order) ==
  LET pre == Pre(t, order) IN
  { LET m == mem[obj][i]
        rdv == [pre EXCEPT ![obj] = i]
        seen == Join(rdv, m.view)
        c == IF IsAcquire(order) THEN seen ELSE rdv
    IN Outcome(mem,
               [cur |-> c, acq |-> Join(tv[t].acq, seen), rel |-> tv[t].rel],
               Post(pre, order), TRUE, m.val, None, i, 0)
    : i \in pre[obj]..Len(mem[obj]) }

\* a store the storing thread itself may afterwards not see
atomic_store_explicit_unseen(t, obj, value, order) ==
  LET pre == Pre(t, order)
      i == Len(mem[obj]) + 1
      mv == IF IsRelease(order) THEN pre ELSE [tv[t].rel EXCEPT ![obj] = i]
  IN { Outcome([mem EXCEPT ![obj] =
                  Append(@, [val |-> value, view |-> mv, rmw |-> FALSE])],
               [cur |-> pre, acq |-> Join(tv[t].acq, pre), rel |-> tv[t].rel],
               Post(pre, order), TRUE, None, None, 0, i) }

\* atomic_store_explicit: a new write at the end of the modification order; a
\* release store publishes the thread's view with it
atomic_store_explicit(t, obj, value, order) ==
  LET pre == Pre(t, order)
      i == Len(mem[obj]) + 1
      c == [pre EXCEPT ![obj] = i]
      mv == IF IsRelease(order) THEN c ELSE [tv[t].rel EXCEPT ![obj] = i]
  IN { Outcome([mem EXCEPT ![obj] = Append(@, [val |-> value, view |-> mv, rmw |-> FALSE])],
               [cur |-> c, acq |-> Join(tv[t].acq, c), rel |-> tv[t].rel],
               Post(pre, order), TRUE, None, None, 0, i) }

\* a read-modify-write: reads the last write of the modification order and
\* puts its own write right after it, continuing that write's release sequence
ReadModifyWrite(t, obj, value, order) ==
  LET pre == Pre(t, order)
      n == Len(mem[obj])
      m == mem[obj][n]
      rdv == [pre EXCEPT ![obj] = n + 1]
      seen == Join(rdv, m.view)
      c == IF IsAcquire(order) THEN seen ELSE rdv
      mv == [Join(m.view, IF IsRelease(order) THEN c ELSE tv[t].rel)
               EXCEPT ![obj] = n + 1]
  IN Outcome([mem EXCEPT ![obj] =
                       Append(@, [val |-> value, view |-> mv, rmw |-> TRUE])],
             [cur |-> c, acq |-> Join(tv[t].acq, seen), rel |-> tv[t].rel],
             Post(pre, order), TRUE, m.val, None, n, n + 1)

\* a failure that leaves *expected as it was
CasFailure_KeepsExpected(t, obj, orig, fail, spurious) ==
  { [o EXCEPT !.ok = FALSE, !.out = orig, !.ret = FALSE]
    : o \in { l \in atomic_load_explicit(t, obj, fail)
              : l.ret # orig \/ spurious } }

\* the failure of a compare-exchange is a load with the failure order that
\* stores what it read into *expected
CasFailure(t, obj, orig, fail, spurious) ==
  { [o EXCEPT !.ok = FALSE, !.out = o.ret, !.ret = FALSE]
    : o \in { l \in atomic_load_explicit(t, obj, fail)
              : l.ret # orig \/ spurious } }

\* an exchange that does not compare
CasSuccess_Unconditional(t, obj, orig, new, succ) ==
  { [ReadModifyWrite(t, obj, new, succ) EXCEPT !.out = orig, !.ret = TRUE] }

\* a compare-exchange that compares with a write the thread may still read,
\* not with the last one
CasSuccess_Stale(t, obj, orig, new, succ) ==
  IF \E i \in tv[t].cur[obj]..Len(mem[obj]) : mem[obj][i].val = orig
  THEN { [ReadModifyWrite(t, obj, new, succ) EXCEPT !.out = orig, !.ret = TRUE] }
  ELSE {}

CasSuccess(t, obj, orig, new, succ) ==
  IF Latest(obj) = orig
  THEN { [ReadModifyWrite(t, obj, new, succ) EXCEPT !.out = orig, !.ret = TRUE] }
  ELSE {}

\* a compare-exchange that waits for the expected value instead of failing
atomic_compare_exchange_strong_waiting(t, obj, orig, new, succ, fail) ==
  CasSuccess(t, obj, orig, new, succ)

\* atomic_compare_exchange_strong_explicit: fails only on a value that differs
atomic_compare_exchange_strong_explicit(t, obj, orig, new, succ, fail) ==
  CasSuccess(t, obj, orig, new, succ) \cup CasFailure(t, obj, orig, fail, FALSE)

\* a compare-exchange that never succeeds
atomic_compare_exchange_never(t, obj, orig, new, succ, fail) ==
  CasFailure(t, obj, orig, fail, TRUE)

\* atomic_compare_exchange_weak_explicit: may also fail on the expected value
atomic_compare_exchange_weak_explicit(t, obj, orig, new, succ, fail) ==
  CasSuccess(t, obj, orig, new, succ) \cup CasFailure(t, obj, orig, fail, TRUE)

\* an addition made of a load and a store, which another write may separate
atomic_fetch_add_torn(t, obj, amount) ==
  { [mem |-> [mem EXCEPT ![obj] =
                Append(@, [val |-> U64Add(l.ret, amount),
                           view |-> [l.tv.cur EXCEPT ![obj] = Len(mem[obj]) + 1],
                           rmw |-> FALSE])],
     tv |-> [l.tv EXCEPT !.cur[obj] = Len(mem[obj]) + 1,
                         !.acq[obj] = Len(mem[obj]) + 1],
     scv |-> [l.scv EXCEPT ![obj] = Len(mem[obj]) + 1],
     ok |-> TRUE, ret |-> l.ret, out |-> None, rd |-> l.rd,
     wr |-> Len(mem[obj]) + 1]
    : l \in atomic_load_explicit(t, obj, "relaxed") }

\* atomic_fetch_add, atomic_fetch_sub: seq_cst read-modify-writes
atomic_fetch_add(t, obj, amount) ==
  { ReadModifyWrite(t, obj, U64Add(Latest(obj), amount), "seq_cst") }

atomic_fetch_sub(t, obj, amount) ==
  { ReadModifyWrite(t, obj, U64Sub(Latest(obj), amount), "seq_cst") }

\* a fence done as a read-modify-write of a cell
atomic_thread_fence_rmw(t, order) ==
  { ReadModifyWrite(t, "X", Latest("X"), order) }

\* atomic_thread_fence: an acquire fence makes the thread's view what its
\* earlier loads saw; a seq_cst fence is an acquire and a release fence that
\* also joins the view of the seq_cst operations
atomic_thread_fence(t, order) ==
  LET a == IF IsAcquire(order) THEN tv[t].acq ELSE tv[t].cur
      c == IF order = "seq_cst" THEN Join(a, scv) ELSE a
  IN { Outcome(mem,
               [cur |-> c, acq |-> Join(tv[t].acq, c),
                rel |-> IF IsRelease(order) THEN c ELSE tv[t].rel],
               Post(c, order), TRUE, None, None, 0, 0) }

----------------------------------------------------------------------------
(* The wrappers of CPenguinParallel.h *)

nbc_set_relaxed_atomic(t, obj, value) ==
  atomic_store_explicit(t, obj, value, "relaxed")

nbc_load_relaxed(t, obj) == atomic_load_explicit(t, obj, "relaxed")

\* a load done as an exchange with 0
nbc_load_acquire_exchange(t, obj) ==
  { ReadModifyWrite(t, obj, U64(0), "acquire") }

nbc_load_acquire(t, obj) == atomic_load_explicit(t, obj, "acquire")

\* nbc_load_seqcst loading with acquire ordering only
nbc_load_seqcst_acquire(t, obj) == atomic_load_explicit(t, obj, "acquire")

nbc_load_seqcst(t, obj) == atomic_load_explicit(t, obj, "seq_cst")

\* nbc_cmpxchg_acqrel with acquire ordering on failure
nbc_cmpxchg_acqrel_acquire_on_failure(t, obj, orig, new) ==
  atomic_compare_exchange_weak_explicit(t, obj, orig, new, "acq_rel", "acquire")

\* nbc_cmpxchg_acqrel without the release on success
nbc_cmpxchg_acqrel_no_release(t, obj, orig, new) ==
  atomic_compare_exchange_weak_explicit(t, obj, orig, new, "acquire", "relaxed")

nbc_cmpxchg_acqrel(t, obj, orig, new) ==
  atomic_compare_exchange_weak_explicit(t, obj, orig, new, "acq_rel", "relaxed")

nbc_cmpxchg_seqcst(t, obj, orig, new) ==
  atomic_compare_exchange_weak_explicit(t, obj, orig, new, "seq_cst", "relaxed")

nbc_cmpxchg_relaxed(t, obj, orig, new) ==
  atomic_compare_exchange_weak_explicit(t, obj, orig, new, "relaxed", "relaxed")

nbc_fetch_add(t, obj, amount) == atomic_fetch_add(t, obj, amount)

nbc_fetch_sub(t, obj, amount) == atomic_fetch_sub(t, obj, amount)

\* the seq_cst fence weakened to an acquire fence
nbc_thread_fence_seqcst_acquire(t) == atomic_thread_fence(t, "acquire")

nbc_thread_fence_seqcst(t) == atomic_thread_fence(t, "seq_cst")

nbc_thread_fence_acquire(t) == atomic_thread_fence(t, "acquire")

ac_load_relaxed(t, obj) == atomic_load_explicit(t, obj, "relaxed")

ac_load_acquire(t, obj) == atomic_load_explicit(t, obj, "acquire")

\* the relaxed store strengthened to a release store
ac_store_relaxed_release(t, obj, value) ==
  atomic_store_explicit(t, obj, value, "release")

ac_store_relaxed(t, obj, value) ==
  atomic_store_explicit(t, obj, value, "relaxed")

\* ac_store_release storing relaxed
ac_store_release_relaxed(t, obj, value) ==
  atomic_store_explicit(t, obj, value, "relaxed")

ac_store_release(t, obj, value) ==
  atomic_store_explicit(t, obj, value, "release")

\* ac_cmpxchg_strong_acquire calling the weak compare-exchange
ac_cmpxchg_weak_acquire(t, obj, orig, new) ==
  atomic_compare_exchange_weak_explicit(t, obj, orig, new, "acquire", "relaxed")

\* the strong compare-and-swap with no acquire on success
ac_cmpxchg_strong_relaxed(t, obj, orig, new) ==
  atomic_compare_exchange_strong_explicit(t, obj, orig, new, "relaxed", "relaxed")

ac_cmpxchg_strong_acquire(t, obj, orig, new) ==
  atomic_compare_exchange_strong_explicit(t, obj, orig, new, "acquire", "relaxed")

\* the call `op` of the header by thread t on obj (fences take no cell) with
\* arguments a (value, amount or new) and e (*orig): its possible outcomes
Call(op, t, obj, e, a) ==
  CASE op = "nbc_set_relaxed_atomic" -> nbc_set_relaxed_atomic(t, obj, a)
    [] op = "nbc_load_relaxed" -> nbc_load_relaxed(t, obj)
    [] op = "nbc_load_acquire" -> nbc_load_acquire(t, obj)
    [] op = "nbc_load_seqcst" -> nbc_load_seqcst(t, obj)
    [] op = "nbc_cmpxchg_acqrel" -> nbc_cmpxchg_acqrel(t, obj, e, a)
    [] op = "nbc_cmpxchg_seqcst" -> nbc_cmpxchg_seqcst(t, obj, e, a)
    [] op = "nbc_cmpxchg_relaxed" -> nbc_cmpxchg_relaxed(t, obj, e, a)
    [] op = "nbc_fetch_add" -> nbc_fetch_add(t, obj, a)
    [] op = "nbc_fetch_sub" -> nbc_fetch_sub(t, obj, a)
    [] op = "nbc_thread_fence_seqcst" -> nbc_thread_fence_seqcst(t)
    [] op = "nbc_thread_fence_acquire" -> nbc_thread_fence_acquire(t)
    [] op = "ac_load_relaxed" -> ac_load_relaxed(t, obj)
    [] op = "ac_load_acquire" -> ac_load_acquire(t, obj)
    [] op = "ac_store_relaxed" -> ac_store_relaxed(t, obj, a)
    [] op = "ac_store_release" -> ac_store_release(t, obj, a)
    [] op = "ac_cmpxchg_strong_acquire" -> ac_cmpxchg_strong_acquire(t, obj, e, a)

\* the effect of outcome o of a call on the shared state
Effect(op, t, obj, e, a, o) ==
  /\ mem' = o.mem
  /\ tv' = [tv EXCEPT ![t] = o.tv]
  /\ scv' = o.scv
  /\ res' = [op |-> op, t |-> t, obj |-> obj, orig |-> e, arg |-> a,
             ok |-> o.ok, ret |-> o.ret, out |-> o.out, rd |-> o.rd, wr |-> o.wr]

NoCall == [op |-> None, t |-> 0, obj |-> None, orig |-> None, arg |-> None,
           ok |-> TRUE, ret |-> None, out |-> None, rd |-> 0, wr |-> 0]

\* the memory before any call: every cell holds its initial value, which every
\* thread sees
InitMem(x, y, f, d) ==
  [l \in Loc |-> <<[val |-> CASE l = "X" -> x [] l = "Y" -> y
                              [] l = "F" -> f [] l = "D" -> d,
                    view |-> Bot, rmw |-> FALSE]>>]

InitViews ==
  /\ tv = [t \in Proc |-> [cur |-> Bot, acq |-> Bot, rel |-> Bot]]
  /\ scv = Bot
  /\ res = NoCall

\* an access of an ordinary (non-atomic) variable of the client
PlainWrite(t, d, value) == atomic_store_explicit(t, d, value, "relaxed")
PlainRead(t, d) == atomic_load_explicit(t, d, "relaxed")

----------------------------------------------------------------------------
(* Spec: any thread calls any wrapper, in any order *)

Caller == {1, 2}
Amount == {U64(1), U64Max}

Loads64 == {"nbc_load_relaxed", "nbc_load_acquire", "nbc_load_seqcst"}
Cas64 == {"nbc_cmpxchg_acqrel", "nbc_cmpxchg_seqcst", "nbc_cmpxchg_relaxed"}
Fences == {"nbc_thread_fence_seqcst", "nbc_thread_fence_acquire"}
Loads8 == {"ac_load_relaxed", "ac_load_acquire"}
Stores8 == {"ac_store_relaxed", "ac_store_release"}
Cas8 == {"ac_cmpxchg_strong_acquire"}
CasOps == Cas64 \cup Cas8

Init ==
  /\ \E x \in Val64, f \in Val8 : mem = InitMem(x, U64(0), f, 0)
  /\ InitViews
  /\ pc = 0
  /\ reg = None

Invoke(op, t, obj, e, a) ==
  /\ \E o \in Call(op, t, obj, e, a) : Effect(op, t, obj, e, a, o)
  /\ pc' = pc + 1
  /\ UNCHANGED reg

Store64 ==
  /\ pc < MaxOps
  /\ \E t \in Caller, v \in Val64 :
       Invoke("nbc_set_relaxed_atomic", t, "X", None, v)

Load64 ==
  /\ pc < MaxOps
  /\ \E t \in Caller, op \in Loads64 : Invoke(op, t, "X", None, None)

Cmpxchg64 ==
  /\ pc < MaxOps
  /\ \E t \in Caller, op \in Cas64, e \in Val64, a \in Val64 :
       Invoke(op, t, "X", e, a)

FetchAdd ==
  /\ pc < MaxOps
  /\ \E t \in Caller, a \in Amount : Invoke("nbc_fetch_add", t, "X", None, a)

FetchSub ==
  /\ pc < MaxOps
  /\ \E t \in Caller, a \in Amount : Invoke("nbc_fetch_sub", t, "X", None, a)

Fence ==
  /\ pc < MaxOps
  /\ \E t \in Caller, op \in Fences : Invoke(op, t, None, None, None)

Load8 ==
  /\ pc < MaxOps
  /\ \E t \in Caller, op \in Loads8 : Invoke(op, t, "F", None, None)

Store8 ==
  /\ pc < MaxOps
  /\ \E t \in Caller, op \in Stores8, v \in Val8 : Invoke(op, t, "F", None, v)

Cmpxchg8 ==
  /\ pc < MaxOps
  /\ \E t \in Caller, op \in Cas8, e \in Val8, a \in Val8 :
       Invoke(op, t, "F", e, a)

Next ==
  \/ Store64 \/ Load64 \/ Cmpxchg64 \/ FetchAdd \/ FetchSub \/ Fence
  \/ Load8 \/ Store8 \/ Cmpxchg8

Spec == Init /\ [][Next]_vars

----------------------------------------------------------------------------
(* Claims checked under Spec *)

\* the step is a call of a wrapper in `ops`
Calls(ops) == res'.op \in ops /\ pc' = pc + 1

\* the cell a call is made on gets one more write, of value v, and nothing else
WritesOnly(obj, v) ==
  /\ mem'[obj] = Append(mem[obj], mem'[obj][Len(mem'[obj])])
  /\ mem'[obj][Len(mem'[obj])].val = v
  /\ \A l \in Loc \ {obj} : mem'[l] = mem[l]

\* C1: every compare-and-swap call, of any variant and in any interleaving,
\* either returns true, having read the expected value from the last write of
\* the cell, which now holds `new`, with *orig as it was; or returns false,
\* having written nothing, with *orig set to the value it read from the cell.
C1_CasContract ==
  [][Calls(CasOps) =>
       LET r == res' IN
       \/ /\ r.ok /\ r.ret = TRUE
          /\ r.rd = Len(mem[r.obj]) /\ mem[r.obj][r.rd].val = r.orig
          /\ r.wr = r.rd + 1
          /\ WritesOnly(r.obj, r.arg)
          /\ r.out = r.orig
       \/ /\ ~r.ok /\ r.ret = FALSE
          /\ mem' = mem
          /\ r.wr = 0
          /\ r.rd \in 1..Len(mem[r.obj])
          /\ r.out = mem[r.obj][r.rd].val]_vars

\* both outcomes of a compare-and-swap have happened, the failure on a cell
\* that other calls had written before
C1_Witness ==
  /\ res.op \in CasOps /\ ~res.ok /\ res.out # res.orig
  /\ Len(mem[res.obj]) >= 2

\* C3: ac_cmpxchg_strong_acquire fails only on a value that differs: it
\* returns true exactly when the value it read equals *orig, and a thread that
\* has seen the last write of the cell, when that write is the expected value,
\* succeeds in this one call and leaves the cell at `new`.
C3_StrongNeverSpurious ==
  [][Calls(Cas8) =>
       LET r == res' IN
       /\ r.ok <=> mem[r.obj][r.rd].val = r.orig
       /\ ~r.ok => r.out # r.orig
       /\ (tv[r.t].cur[r.obj] = Len(mem[r.obj]) /\ Latest(r.obj) = r.orig)
            => r.ok /\ mem'[r.obj][Len(mem'[r.obj])].val = r.arg]_vars

\* the strong compare-and-swap has succeeded on a cell another thread wrote
C3_Witness ==
  /\ res.op \in Cas8 /\ res.ok
  /\ res.rd >= 2 /\ mem["F"][res.rd].view["F"] = res.rd
  /\ tv[res.t].cur["F"] = res.wr

\* r = a + b modulo 2^64, by the carries of the addition
IsSum(a, b, r) ==
  \E c \in [1..5 -> {0, 1}] :
    /\ c[1] = 0
    /\ \A i \in 1..4 : a[i] + b[i] + c[i] = r[i] + Base * c[i + 1]

\* C5: nbc_fetch_add and nbc_fetch_sub return the value of the write they
\* replace, the last of the cell, and leave (old + amount) mod 2^64 and
\* (old - amount) mod 2^64; fetch_add(1) on 2^64-1 leaves 0 and fetch_sub(1)
\* on 0 leaves 2^64-1.
C5_FetchModify ==
  (res.op \in {"nbc_fetch_add", "nbc_fetch_sub"}) =>
    LET old == mem[res.obj][res.rd].val
        new == mem[res.obj][res.wr].val
    IN /\ res.wr = Len(mem[res.obj]) /\ res.rd = res.wr - 1
       /\ res.ret = old
       /\ res.op = "nbc_fetch_add" => IsSum(old, res.arg, new)
       /\ res.op = "nbc_fetch_sub" => IsSum(new, res.arg, old)
       /\ (res.op = "nbc_fetch_add" /\ old = U64Max /\ res.arg = U64(1))
            => new = U64(0)
       /\ (res.op = "nbc_fetch_sub" /\ old = U64(0) /\ res.arg = U64(1))
            => new = U64Max

\* fetch_add(1) has wrapped around from 2^64-1
C5_Witness ==
  /\ res.op = "nbc_fetch_add" /\ res.ret = U64Max /\ res.arg = U64(1)
  /\ Latest("X") = U64(0)

\* the wrappers that only read a cell
LoadOps == Loads64 \cup Loads8

\* the values the writes of a cell have put there, the initial one included
Written(obj) == { mem[obj][i].val : i \in 1..Len(mem[obj]) }

\* C12: every load, of either width and at any ordering, returns the whole
\* value of one write of the cell it reads - the initial value or the value one
\* earlier store, compare-and-swap or fetch-modify left - and never a mixture
\* of the parts of several values.
C12_LoadsAreAtomic ==
  (res.op \in LoadOps) =>
    /\ res.rd \in 1..Len(mem[res.obj])
    /\ res.ret = mem[res.obj][res.rd].val
    /\ res.ret \in Written(res.obj)

\* a 64-bit load has returned the value another call wrote over a different
\* initial value
C12_Witness ==
  /\ res.op \in Loads64 /\ res.rd = 2
  /\ res.ret = U64Max /\ mem[res.obj][1].val = U64(0)

------------------------------------------------------------\* the wrappers of each width, by the arguments they take
StoreOps(obj) == IF obj \in Cell64 THEN {"nbc_set_relaxed_atomic"} ELSE Stores8
LoadsOf(obj) == IF obj \in Cell64 THEN Loads64 ELSE Loads8
CasOf(obj) == IF obj \in Cell64 THEN Cas64 ELSE Cas8
ValsOf(obj) == IF obj \in Cell64 THEN Val64 ELSE Val8

\* the call has an outcome in the present state, each of its outcomes is one
\* step that returns, and a compare-and-swap that does not succeed returns
\* false with the value it read in *orig and writes nothing
Completes(op, t, obj, e, a) ==
  \A S \in {Call(op, t, obj, e, a)} :
    /\ S # {}
    /\ \A o \in S :
         /\ o.ok \in BOOLEAN
         /\ op \in CasOps =>
              \/ o.ok /\ o.ret = TRUE /\ o.wr = Len(mem[obj]) + 1
              \/ /\ ~o.ok /\ o.ret = FALSE /\ o.mem = mem
                 /\ o.rd \in 1..Len(mem[obj]) /\ o.out = mem[obj][o.rd].val

\* C13: in every state, whatever the other threads have done, every call of
\* every wrapper by any thread with any arguments has an outcome - it waits for
\* no state - and each outcome is one step that returns; a compare-and-swap on
\* a cell that does not hold the expected value returns false with *orig
\* corrected.
C13_TotalNonBlocking ==
  \A t \in Caller :
    /\ \A op \in Fences : Completes(op, t, None, None, None)
    /\ \A obj \in {"X", "F"} :
         /\ \A op \in LoadsOf(obj) : Completes(op, t, obj, None, None)
         /\ \A op \in StoreOps(obj), a \in ValsOf(obj) :
              Completes(op, t, obj, None, a)
         /\ \A op \in CasOf(obj), e \in ValsOf(obj), a \in ValsOf(obj) :
              Completes(op, t, obj, e, a)
    /\ \A op \in {"nbc_fetch_add", "nbc_fetch_sub"}, a \in Amount :
         Completes(op, t, "X", None, a)

\* the strong compare-and-swap has returned false on a value another call had
\* put into the cell
C13_Witness ==
  /\ res.op \in Cas8 /\ ~res.ok /\ res.ret = FALSE
  /\ res.rd >= 2 /\ res.out = mem["F"][res.rd].val /\ res.out # res.orig

\* C14: nbc_thread_fence_seqcst and nbc_thread_fence_acquire take no cell and
\* leave every cell as it was: they read no write and make none, and change
\* only what the calling thread (and, for seq_cst, the later seq_cst
\* operations) may afterwards read.
C14_FencesTouchNoCell ==
  [][Calls(Fences) =>
       LET r == res' IN
       /\ r.obj = None /\ r.rd = 0 /\ r.wr = 0
       /\ mem' = mem
       /\ \A u \in Proc \ {r.t} : tv'[u] = tv[u]
       /\ \A l \in Loc : tv'[r.t].cur[l] >= tv[r.t].cur[l]
       /\ r.op = "nbc_thread_fence_acquire" => scv' = scv]_vars

\* a seq_cst fence after a store of the same thread: the store is ordered
\* for the later seq_cst operations, and the cell still has its two writes
C14_Witness ==
  /\ res.op = "nbc_thread_fence_seqcst"
  /\ Len(mem["X"]) = 2 /\ scv["X"] = 2

\* the wrappers that may write the cell they are called on
WriteOps == {"nbc_set_relaxed_atomic", "nbc_fetch_add", "nbc_fetch_sub"}
              \cup Stores8 \cup CasOps

\* C19: a load leaves every cell as it was; a store, compare-and-swap or
\* fetch-modify adds at most one write to the cell it is called on and leaves
\* every other cell, 64-bit or 8-bit, as it was.
C19_Frame ==
  [][/\ Calls(LoadOps) => mem' = mem
     /\ Calls(WriteOps) =>
          LET r == res' IN
          /\ \A l \in Loc \ {r.obj} : mem'[l] = mem[l]
          /\ \/ mem'[r.obj] = mem[r.obj]
             \/ /\ Len(mem'[r.obj]) = Len(mem[r.obj]) + 1
                /\ \A i \in 1..Len(mem[r.obj]) : mem'[r.obj][i] = mem[r.obj][i]]_vars

\* a store to the 8-bit cell after a write of a 64-bit cell: that cell still
\* holds what was written to it, and the other 64-bit cell its initial value
C19_Witness ==
  /\ res.op \in Stores8 /\ res.wr = 2 /\ Latest("F") = 255
  /\ Len(mem["X"]) = 2 /\ Latest("X") = U64Max /\ mem["X"][1].val = U64(0)
  /\ Len(mem["Y"]) = 1

----------------
(* SpecCas: one thread, alone, makes the same compare-and-swap call twice *)

InitCas ==
  /\ \E op \in CasOps :
       \E x \in (IF op \in Cas8 THEN ScenVal8 ELSE ScenVal64),
          y \in (IF op \in Cas8 THEN ScenVal8 ELSE ScenVal64) :
         /\ mem = (IF op \in Cas8 THEN InitMem(U64(0), U64(0), x, 0)
                                  ELSE InitMem(x, U64(0), 0, 0))
         /\ reg = [op |-> op, obj |-> IF op \in Cas8 THEN "F" ELSE "X",
                   x |-> x, y |-> y, first |-> NoCall]
  /\ InitViews
  /\ pc = "first"

\* bool ok = cmpxchg(&cell, &expected, y) with expected = x
CasFirst ==
  /\ pc = "first"
  /\ \E o \in Call(reg.op, 1, reg.obj, reg.x, reg.y) :
       /\ Effect(reg.op, 1, reg.obj, reg.x, reg.y, o)
       /\ reg' = [reg EXCEPT !.first = res']
  /\ pc' = "second"

\* the same call again, expected = x as before
CasSecond ==
  /\ pc = "second"
  /\ \E o \in Call(reg.op, 1, reg.obj, reg.x, reg.y) :
       Effect(reg.op, 1, reg.obj, reg.x, reg.y, o)
  /\ pc' = "done"
  /\ UNCHANGED reg

NextCas == CasFirst \/ CasSecond

SpecCas == InitCas /\ [][NextCas]_vars

\* C2 as claimed: with the cell at X and no other thread, every variant's
\* cmpxchg(expected=X, new=Y) succeeds and leaves Y, and the same call again
\* with the stale expected=X fails and rewrites expected to Y, for all X, Y.
C2_Original ==
  /\ pc = "second" => reg.first.ok /\ Latest(reg.obj) = reg.y
  /\ pc = "done" => ~res.ok /\ res.out = reg.y

\* C2 as amended: the strong variant succeeds; a weak variant succeeds, and
\* the cell becomes Y, or fails spuriously, and the cell and expected stay X;
\* after a success with Y different from X the same call with the stale
\* expected=X fails and rewrites expected to Y.
C2_Amended ==
  /\ pc # "first" =>
       /\ reg.op \in Cas8 => reg.first.ok
       /\ reg.first.ok => mem[reg.obj][reg.first.wr].val = reg.y
       /\ ~reg.first.ok => /\ reg.first.out = reg.x
                           /\ mem[reg.obj][reg.first.rd].val = reg.x
                           /\ reg.first.wr = 0
  /\ pc = "second" => Latest(reg.obj) = (IF reg.first.ok THEN reg.y ELSE reg.x)
  /\ (pc = "done" /\ reg.first.ok /\ reg.x # reg.y) =>
       ~res.ok /\ res.out = reg.y /\ Latest(reg.obj) = reg.y

\* a weak variant has succeeded and then failed on the stale expected value
C2_Witness ==
  /\ pc = "done" /\ reg.op \in Cas64 /\ reg.first.ok /\ reg.x # reg.y
  /\ ~res.ok /\ res.out = reg.y

----------------------------------------------------------------------------
(* SpecSeq: one thread stores to a cell no one else writes, and loads *)

InitSeq ==
  /\ \E x \in ScenVal64 :
       /\ mem = InitMem(x, U64(0), 0, 0)
       /\ reg = [last |-> x]
  /\ InitViews
  /\ pc = 0

SeqStore ==
  /\ pc < MaxStores
  /\ \E v \in ScenVal64 :
       /\ \E o \in nbc_set_relaxed_atomic(1, "X", v) :
            Effect("nbc_set_relaxed_atomic", 1, "X", None, v, o)
       /\ reg' = [last |-> v]
  /\ pc' = pc + 1

SeqLoad ==
  /\ \E op \in Loads64 :
       \E o \in Call(op, 1, "X", None, None) : Effect(op, 1, "X", None, None, o)
  /\ UNCHANGED <<pc, reg>>

NextSeq == SeqStore \/ SeqLoad

SpecSeq == InitSeq /\ [][NextSeq]_vars

\* C10: whatever the initial value and the nbc_set_relaxed_atomic calls one
\* thread has made on a cell without another writer, its next nbc_load_relaxed,
\* nbc_load_acquire or nbc_load_seqcst returns the value stored last (the
\* initial value when it has stored nothing).
C10_LoadSeesLastStore ==
  res.op \in Loads64 => res.ret = reg.last /\ res.rd = Len(mem["X"])

\* a load after the last of several stores, which changed the value
C10_Witness ==
  /\ res.op = "nbc_load_seqcst" /\ pc = MaxStores
  /\ res.ret # mem["X"][1].val /\ res.ret # mem["X"][pc].val

----------------------------------------------------------------------------
(* SpecRetry: one thread, alone, retries a weak compare-and-swap until it *)
(* succeeds:  while (!cmpxchg(&cell, &expected, new)) {}                   *)

Min(a, b) == IF a <= b THEN a ELSE b

InitRetry ==
  /\ \E op \in Cas64, x \in ScenVal64, e \in ScenVal64, y \in ScenVal64 :
       /\ mem = InitMem(x, U64(0), 0, 0)
       /\ reg = [op |-> op, expected |-> e, new |-> y, failures |-> 0,
                 spurious |-> 0]
  /\ InitViews
  /\ pc = "try"

RetrySucceed ==
  /\ pc = "try"
  /\ \E o \in Call(reg.op, 1, "X", reg.expected, reg.new) :
       /\ o.ok
       /\ Effect(reg.op, 1, "X", reg.expected, reg.new, o)
  /\ pc' = "done"
  /\ UNCHANGED reg

\* the call fails, *orig is the next attempt's expected value; the counters
\* stop at MaxAttempts, the loop does not
RetryFail ==
  /\ pc = "try"
  /\ \E o \in Call(reg.op, 1, "X", reg.expected, reg.new) :
       /\ ~o.ok
       /\ Effect(reg.op, 1, "X", reg.expected, reg.new, o)
       /\ reg' = [reg EXCEPT
                    !.expected = o.out,
                    !.failures = Min(@ + 1, MaxAttempts),
                    !.spurious = IF o.out = reg.expected
                                 THEN Min(@ + 1, MaxAttempts) ELSE @]
  /\ pc' = "try"

NextRetry == RetrySucceed \/ RetryFail

\* the thread keeps running, and a weak compare-and-swap whose comparison
\* holds does not fail forever
SpecRetry ==
  InitRetry /\ [][NextRetry]_vars /\ WF_vars(NextRetry) /\ WF_vars(RetrySucceed)

\* C4: the 64-bit compare-and-swaps are weak: a call may fail although the
\* cell holds the expected value, and then leaves the cell as it was; a loop
\* that retries with the rewritten expected value, no other thread writing
\* the cell, eventually succeeds and leaves the cell at `new`.
C4_WeakRetryConverges ==
  /\ [][(pc' = "try") => mem' = mem /\ reg'.expected = Latest("X")]_vars
  /\ <>(pc = "done" /\ res.ok /\ Latest("X") = reg.new)

\* the loop has ended after a call that failed on the expected value
C4_Witness ==
  /\ pc = "done" /\ reg.spurious >= 1 /\ reg.failures > reg.spurious
  /\ Latest("X") = reg.new

----------------------------------------------------------------------------
(* SpecCounter: NThreads threads each add 1 to a cell, initially 0,        *)
(* IncrementsPerThread times                                               *)

InitCounter ==
  /\ mem = InitMem(U64(0), U64(0), 0, 0)
  /\ InitViews
  /\ pc = [t \in Thread |-> 0]
  /\ reg = [t \in Thread |-> <<>>]

\* uint64_t old = nbc_fetch_add(&cell, 1)
Increment ==
  \E t \in Thread :
    /\ pc[t] < IncrementsPerThread
    /\ \E o \in nbc_fetch_add(t, "X", U64(1)) :
         /\ Effect("nbc_fetch_add", t, "X", None, U64(1), o)
         /\ reg' = [reg EXCEPT ![t] = Append(@, o.ret)]
    /\ pc' = [pc EXCEPT ![t] = @ + 1]

NextCounter == Increment

SpecCounter == InitCounter /\ [][NextCounter]_vars

RECURSIVE SumOver(_, _)
SumOver(f, S) ==
  IF S = {} THEN 0 ELSE LET t == CHOOSE u \in S : TRUE IN f[t] + SumOver(f, S \ {t})

Returned == UNION {{reg[t][i] : i \in 1..Len(reg[t])} : t \in Thread}

\* C6: NThreads threads each calling nbc_fetch_add(1) IncrementsPerThread
\* times on a cell that starts at 0 lose no update: after k calls in all the
\* cell holds k and the k values returned are 0..k-1, each once; in the end
\* the cell holds NThreads * IncrementsPerThread.
C6_NoLostUpdate ==
  LET k == SumOver(pc, Thread) IN
  /\ Latest("X") = U64(k)
  /\ Returned = {U64(j) : j \in 0..(k - 1)}
  /\ Cardinality(Returned) = k
  /\ (\A t \in Thread : pc[t] = IncrementsPerThread)
       => Latest("X") = U64(NThreads * IncrementsPerThread)

\* all threads are done and their increments were interleaved
C6_Witness ==
  /\ \A t \in Thread : pc[t] = IncrementsPerThread
  /\ Latest("X") = U64(NThreads * IncrementsPerThread)
  /\ \E t \in Thread : reg[t][2] # U64Add(reg[t][1], U64(1))

----------------------------------------------------------------------------
(* SpecMP: message passing.  Thread 1 writes an ordinary variable and then *)
(* publishes a flag cell; thread 2 observes the flag cell, perhaps issues  *)
(* an acquire fence, and reads the ordinary variable; thread 3 may write   *)
(* the flag cell too.                                                      *)
(*   thread 1:  d = 1;  ac_store_release(&f, 1);                           *)
(*         or:  d = 1;  while (!nbc_cmpxchg_acqrel(&x, &e, 1)) {}          *)
(*   thread 2:  b = <observe the flag>;  [nbc_thread_fence_acquire();]     *)
(*              r = d;                                                     *)
(*   thread 3:  <store 2 to the flag>  or  <compare-and-swap it 1 -> 2>    *)

\* the number n as a value of the cell
ValOf(cell, n) == IF cell \in Cell8 THEN n ELSE U64(n)

PubOp(cell) == IF cell \in Cell8 THEN "ac_store_release" ELSE "nbc_cmpxchg_acqrel"

ObsOps(cell) ==
  IF cell \in Cell8 THEN {"ac_load_acquire", "ac_load_relaxed"}
  ELSE {"nbc_load_acquire", "nbc_load_relaxed", "nbc_cmpxchg_acqrel"}

IntfOp(cell, kind) ==
  IF cell \in Cell8
  THEN (IF kind = "store" THEN "ac_store_relaxed" ELSE "ac_cmpxchg_strong_acquire")
  ELSE (IF kind = "store" THEN "nbc_set_relaxed_atomic" ELSE "nbc_cmpxchg_relaxed")

InitMP ==
  /\ mem = InitMem(U64(0), U64(0), 0, 0)
  /\ InitViews
  /\ pc = <<"write", "observe", "go">>
  /\ \E cell \in {"F", "X"}, fence \in BOOLEAN, intf \in {"none", "store", "cas"} :
       \E obs \in ObsOps(cell) :
         \E bexp \in (IF obs \in CasOps THEN {1, 9} ELSE {1}) :
           reg = [cell |-> cell, obs |-> obs, bexp |-> ValOf(cell, bexp),
                  fence |-> fence, intf |-> intf, aexp |-> ValOf(cell, 0),
                  idxA |-> 0, b |-> NoCall, d |-> None]

\* d = 1
MPWrite ==
  /\ pc[1] = "write"
  /\ \E o \in PlainWrite(1, "D", 1) : Effect("write", 1, "D", None, 1, o)
  /\ pc' = [pc EXCEPT ![1] = "publish"]
  /\ UNCHANGED reg

\* the release of the flag; a compare-and-swap that fails is tried again
MPPublish ==
  /\ pc[1] = "publish"
  /\ LET op == PubOp(reg.cell)
         v == ValOf(reg.cell, 1)
     IN \E o \in Call(op, 1, reg.cell, reg.aexp, v) :
          /\ Effect(op, 1, reg.cell, reg.aexp, v, o)
          /\ IF o.ok
             THEN /\ reg' = [reg EXCEPT !.idxA = o.wr]
                  /\ pc' = [pc EXCEPT ![1] = "done"]
             ELSE /\ reg' = [reg EXCEPT !.aexp = o.out]
                  /\ UNCHANGED pc

MPObserve ==
  /\ pc[2] = "observe"
  /\ LET v == ValOf(reg.cell, 3)
     IN \E o \in Call(reg.obs, 2, reg.cell, reg.bexp, v) :
          /\ Effect(reg.obs, 2, reg.cell, reg.bexp, v, o)
          /\ reg' = [reg EXCEPT !.b = res']
  /\ pc' = [pc EXCEPT ![2] = IF reg.fence THEN "fence" ELSE "read"]

MPFence ==
  /\ pc[2] = "fence"
  /\ \E o \in nbc_thread_fence_acquire(2) :
       Effect("nbc_thread_fence_acquire", 2, None, None, None, o)
  /\ pc' = [pc EXCEPT ![2] = "read"]
  /\ UNCHANGED reg

\* r = d
MPRead ==
  /\ pc[2] = "read"
  /\ \E o \in PlainRead(2, "D") :
       /\ Effect("read", 2, "D", None, None, o)
       /\ reg' = [reg EXCEPT !.d = o.ret]
  /\ pc' = [pc EXCEPT ![2] = "done"]

MPInterfere ==
  /\ pc[3] = "go"
  /\ reg.intf # "none"
  /\ LET op == IntfOp(reg.cell, reg.intf)
         e == ValOf(reg.cell, 1)
         v == ValOf(reg.cell, 2)
     IN \E o \in Call(op, 3, reg.cell, e, v) : Effect(op, 3, reg.cell, e, v, o)
  /\ pc' = [pc EXCEPT ![3] = "done"]
  /\ UNCHANGED reg

NextMP == MPWrite \/ MPPublish \/ MPObserve \/ MPFence \/ MPRead \/ MPInterfere

SpecMP == InitMP /\ [][NextMP]_vars

\* thread 2 has read the ordinary variable
BDone == pc[2] = "done"

\* write j of the cell is write i or a later write of its release sequence:
\* the writes after i up to j are all read-modify-writes
InRelSeq(cell, i, j) ==
  /\ i > 0 /\ j >= i
  /\ \A k \in (i + 1)..j : mem[cell][k].rmw

\* C7 as claimed: thread 1 writes d and then calls ac_store_release(flag, v);
\* if thread 2's ac_load_acquire(flag) returns v or a later value of the
\* flag's modification order, its read of d after that returns thread 1's write.
C7_Original ==
  (BDone /\ reg.obs = "ac_load_acquire" /\ reg.idxA > 0 /\ reg.b.rd >= reg.idxA)
    => reg.d = 1

\* C7 as amended: ... if thread 2's ac_load_acquire(flag) returns the value
\* that store wrote, or a later value written by compare-and-swaps that
\* replaced it in turn, its read of d after that returns thread 1's write.
C7_Amended ==
  (BDone /\ reg.obs = "ac_load_acquire" /\ InRelSeq("F", reg.idxA, reg.b.rd))
    => reg.d = 1

\* thread 2's acquire load has returned what thread 1's release store wrote,
\* and with no fence thread 2 has read thread 1's write of d
C7_Witness ==
  /\ BDone /\ reg.obs = "ac_load_acquire" /\ ~reg.fence
  /\ reg.idxA > 0 /\ reg.b.rd = reg.idxA /\ reg.b.ret = 1
  /\ reg.d = 1

\* thread 2's compare-and-swap has failed on the value thread 1 released
FailedOnPublished ==
  /\ reg.obs = "nbc_cmpxchg_acqrel" /\ reg.b.op = reg.obs /\ ~reg.b.ok
  /\ reg.idxA > 0 /\ reg.b.rd = reg.idxA

\* C8 as claimed: a nbc_cmpxchg_acqrel call that fails after reading a value
\* another thread wrote with a release makes the writes before that release
\* visible to the caller when it returns.
C8_Original == (BDone /\ FailedOnPublished) => reg.d = 1

\* C8 as amended: nbc_cmpxchg_acqrel applies relaxed ordering on failure: the
\* failed call changes the caller's view of no other location, and the writes
\* before the release the value came from are visible to the caller once it
\* has also called nbc_thread_fence_acquire.
C8_Amended ==
  /\ [][(pc[2] = "observe" /\ pc'[2] # "observe"
           /\ res'.op = "nbc_cmpxchg_acqrel" /\ ~res'.ok)
          => \A l \in Loc \ {"X"} : tv'[2].cur[l] = tv[2].cur[l]]_vars
  /\ []((BDone /\ FailedOnPublished /\ reg.fence) => reg.d = 1)

\* the call has failed on the released value, and after the fence thread 2
\* has read thread 1's write
C8_Witness ==
  /\ BDone /\ FailedOnPublished /\ reg.fence /\ reg.d = 1
  /\ reg.b.out = U64(1) /\ reg.bexp = U64(9)

\* C9: thread 1 writes d and then succeeds in nbc_cmpxchg_acqrel setting the
\* cell to Y; if thread 2's nbc_load_acquire returns Y, or its own
\* nbc_cmpxchg_acqrel succeeds on Y, its read of d after that returns
\* thread 1's write.
C9_AcqRelSuccess ==
  (/\ BDone
   /\ \/ reg.obs = "nbc_load_acquire" /\ reg.b.ret = U64(1)
      \/ reg.obs = "nbc_cmpxchg_acqrel" /\ reg.b.ok /\ reg.b.orig = U64(1))
    => reg.d = 1

\* thread 2's nbc_cmpxchg_acqrel has succeeded on the value thread 1's
\* successful nbc_cmpxchg_acqrel wrote, and with no fence thread 2 has read
\* thread 1's write
C9_Witness ==
  /\ BDone /\ reg.obs = "nbc_cmpxchg_acqrel" /\ reg.b.ok /\ ~reg.fence
  /\ reg.b.rd = reg.idxA /\ mem["X"][reg.idxA].rmw
  /\ reg.d = 1

----------------------------------------------------------------------------
(* SpecIRIW: independent reads of independent writes.                      *)
(*   thread 1:  modify x            thread 2:  modify y                    *)
(*   thread 3:  a = nbc_load_seqcst(&x);  b = nbc_load_seqcst(&y);         *)
(*   thread 4:  c = nbc_load_seqcst(&y);  d = nbc_load_seqcst(&x);         *)
(* where modify is nbc_fetch_add(1), nbc_fetch_sub(1) or a successful      *)
(* nbc_cmpxchg_seqcst(0 -> 1)                                              *)

SeqCstWrites == {"nbc_fetch_add", "nbc_fetch_sub", "nbc_cmpxchg_seqcst"}

InitIRIW ==
  /\ mem = InitMem(U64(0), U64(0), 0, 0)
  /\ InitViews
  /\ pc = <<0, 0, 0, 0>>
  /\ \E w1 \in SeqCstWrites, w2 \in SeqCstWrites :
       reg = [w |-> <<w1, w2>>, rd |-> <<0, 0, <<0, 0>>, <<0, 0>>>>]

\* thread 1 modifies x, thread 2 modifies y; a compare-and-swap that fails
\* is tried again
IRIWWrite ==
  \E t \in {1, 2} :
    /\ pc[t] = 0
    /\ LET op == reg.w[t]
           cell == IF t = 1 THEN "X" ELSE "Y"
       IN \E o \in Call(op, t, cell, U64(0), U64(1)) :
            /\ Effect(op, t, cell, U64(0), U64(1), o)
            /\ pc' = [pc EXCEPT ![t] = IF o.ok THEN 1 ELSE 0]
    /\ UNCHANGED reg

\* thread 3 reads x then y, thread 4 reads y then x
IRIWRead ==
  \E t \in {3, 4} :
    /\ pc[t] < 2
    /\ LET cell == IF (t = 3) = (pc[t] = 0) THEN "X" ELSE "Y"
       IN \E o \in nbc_load_seqcst(t, cell) :
            /\ Effect("nbc_load_seqcst", t, cell, None, None, o)
            /\ reg' = [reg EXCEPT !.rd[t][pc[t] + 1] = o.rd]
    /\ pc' = [pc EXCEPT ![t] = @ + 1]

NextIRIW == IRIWWrite \/ IRIWRead

SpecIRIW == InitIRIW /\ [][NextIRIW]_vars

\* C11: the sequentially consistent operations agree on one total order:
\* when thread 1 modifies x and thread 2 modifies y (nbc_fetch_add,
\* nbc_fetch_sub or a successful nbc_cmpxchg_seqcst) and threads 3 and 4 read
\* both cells with nbc_load_seqcst in opposite orders, it never happens that
\* thread 3 sees x modified and then y not yet, while thread 4 sees y modified
\* and then x not yet.
C11_SeqCstTotalOrder ==
  (pc[3] = 2 /\ pc[4] = 2) =>
    ~(/\ reg.rd[3] = <<2, 1>>
      /\ reg.rd[4] = <<2, 1>>)

\* both readers are done, thread 3 has seen x modified before y, and thread 4
\* has seen both modified
C11_Witness ==
  /\ pc = <<1, 1, 2, 2>>
  /\ reg.rd[3] = <<2, 1>> /\ reg.rd[4] = <<2, 2>>
  /\ reg.w = <<"nbc_fetch_add", "nbc_cmpxchg_seqcst">>

----------------------------------------------------------------------------
(* SpecLock: a lock on the 8-bit cell, 0 = free, 1 = held.  Every thread   *)
(* takes the lock once and, holding it, reads and writes an ordinary       *)
(* variable:                                                               *)
(*   e = 0;  while (!ac_cmpxchg_strong_acquire(&f, &e, 1)) { e = 0; }      *)
(*   r = d;  d = <thread id>;                                              *)
(*   ac_store_release(&f, 0);                                              *)

InitLock ==
  /\ mem = InitMem(U64(0), U64(0), 0, 0)
  /\ InitViews
  /\ pc = [t \in Thread |-> "acquire"]
  /\ reg = [order |-> <<>>, seen |-> [t \in Thread |-> None], lost |-> {}]

\* one attempt to take the lock; reg.order lists the threads in the order
\* they got it, reg.lost the threads that have found it held
LockAcquire ==
  \E t \in Thread :
    /\ pc[t] = "acquire"
    /\ \E o \in Call("ac_cmpxchg_strong_acquire", t, "F", 0, 1) :
         /\ Effect("ac_cmpxchg_strong_acquire", t, "F", 0, 1, o)
         /\ IF o.ok
            THEN /\ pc' = [pc EXCEPT ![t] = "read"]
                 /\ reg' = [reg EXCEPT !.order = Append(@, t)]
            ELSE /\ UNCHANGED pc
                 /\ reg' = [reg EXCEPT !.lost = @ \cup {t}]

\* r = d
LockRead ==
  \E t \in Thread :
    /\ pc[t] = "read"
    /\ \E o \in PlainRead(t, "D") :
         /\ Effect("read", t, "D", None, None, o)
         /\ reg' = [reg EXCEPT !.seen[t] = o.ret]
    /\ pc' = [pc EXCEPT ![t] = "write"]

\* d = <thread id>
LockWrite ==
  \E t \in Thread :
    /\ pc[t] = "write"
    /\ \E o \in PlainWrite(t, "D", t) : Effect("write", t, "D", None, t, o)
    /\ pc' = [pc EXCEPT ![t] = "release"]
    /\ UNCHANGED reg

LockRelease ==
  \E t \in Thread :
    /\ pc[t] = "release"
    /\ \E o \in Call("ac_store_release", t, "F", None, 0) :
         Effect("ac_store_release", t, "F", None, 0, o)
    /\ pc' = [pc EXCEPT ![t] = "done"]
    /\ UNCHANGED reg

NextLock == LockAcquire \/ LockRead \/ LockWrite \/ LockRelease

SpecLock == InitLock /\ [][NextLock]_vars

\* the threads that hold the lock: their compare-and-swap has succeeded and
\* their release store has not been made
Holders == { t \in Thread : pc[t] \in {"read", "write", "release"} }

\* what the holder before the i-th holder wrote to the variable
WrittenBefore(i) == IF i = 1 THEN 0 ELSE reg.order[i - 1]

\* C15: with the lock taken by a successful ac_cmpxchg_strong_acquire(0 -> 1)
\* and released by ac_store_release(0) by its holder, at most one thread
\* holds the lock at any time, and a thread that holds it sees every write of
\* the ordinary variable by the holders before it: what it reads is what the
\* holder just before it wrote.
C15_LockPattern ==
  /\ Cardinality(Holders) <= 1
  /\ \A t \in Holders : tv[t].cur["D"] = Len(mem["D"])
  /\ \A i \in 1..Len(reg.order) :
       pc[reg.order[i]] # "read" => reg.seen[reg.order[i]] = WrittenBefore(i)

\* the last thread to take the lock, after finding it held, has read what the
\* holder before it wrote
C15_Witness ==
  /\ Len(reg.order) = NThreads
  /\ reg.order[NThreads] \in reg.lost
  /\ pc[reg.order[NThreads]] = "done"
  /\ reg.seen[reg.order[NThreads]] = reg.order[NThreads - 1]

----------------------------------------------------------------------------
(* SpecSB: store buffering.  x and y are 0.                                *)
(*   thread 1:  nbc_set_relaxed_atomic(&x, 1);  <fence>;                   *)
(*              r1 = nbc_load_relaxed(&y);                                 *)
(*   thread 2:  nbc_set_relaxed_atomic(&y, 1);  <fence>;                   *)
(*              r2 = nbc_load_relaxed(&x);                                 *)
(* where <fence> is nbc_thread_fence_seqcst(), nbc_thread_fence_acquire()  *)
(* or nothing                                                              *)

SBThread == {1, 2}
SBOwn(t) == IF t = 1 THEN "X" ELSE "Y"
SBOther(t) == IF t = 1 THEN "Y" ELSE "X"

InitSB ==
  /\ mem = InitMem(U64(0), U64(0), 0, 0)
  /\ InitViews
  /\ pc = <<"store", "store">>
  /\ \E f \in [SBThread -> Fences \cup {None}] :
       reg = [fence |-> f, r |-> <<None, None>>]

SBStore ==
  \E t \in SBThread :
    /\ pc[t] = "store"
    /\ \E o \in Call("nbc_set_relaxed_atomic", t, SBOwn(t), None, U64(1)) :
         Effect("nbc_set_relaxed_atomic", t, SBOwn(t), None, U64(1), o)
    /\ pc' = [pc EXCEPT ![t] = IF reg.fence[t] = None THEN "load" ELSE "fence"]
    /\ UNCHANGED reg

SBFence ==
  \E t \in SBThread :
    /\ pc[t] = "fence"
    /\ \E o \in Call(reg.fence[t], t, None, None, None) :
         Effect(reg.fence[t], t, None, None, None, o)
    /\ pc' = [pc EXCEPT ![t] = "load"]
    /\ UNCHANGED reg

SBLoad ==
  \E t \in SBThread :
    /\ pc[t] = "load"
    /\ \E o \in Call("nbc_load_relaxed", t, SBOther(t), None, None) :
         /\ Effect("nbc_load_relaxed", t, SBOther(t), None, None, o)
         /\ reg' = [reg EXCEPT !.r[t] = o.ret]
    /\ pc' = [pc EXCEPT ![t] = "done"]

NextSB == SBStore \/ SBFence \/ SBLoad

SpecSB == InitSB /\ [][NextSB]_vars

\* both threads have finished, each with nbc_thread_fence_seqcst between its
\* store and its load
SBDoneWithSeqCstFences ==
  /\ pc = <<"done", "done">>
  /\ \A t \in SBThread : reg.fence[t] = "nbc_thread_fence_seqcst"

\* C16: when both threads of the store-buffering program have
\* nbc_thread_fence_seqcst between the relaxed store and the relaxed load, no
\* execution ends with r1 = 0 and r2 = 0.
C16_StoreBuffering ==
  SBDoneWithSeqCstFences => ~(reg.r[1] = U64(0) /\ reg.r[2] = U64(0))

\* the program with the two seq_cst fences has ended with r1 = 1 and r2 = 0
C16_Witness ==
  /\ SBDoneWithSeqCstFences
  /\ reg.r[1] = U64(1) /\ reg.r[2] = U64(0)

----------------------------------------------------------------------------
(* SpecMPRelaxed: the message-passing program of SpecMP with the flag      *)
(* published by a relaxed store:                                           *)
(*   thread 1:  d = 1;  ac_store_relaxed(&f, 1);                           *)
(*         or:  d = 1;  nbc_set_relaxed_atomic(&x, 1);                     *)
(* threads 2 and 3 are those of SpecMP                                     *)

RelaxedPubOp(cell) ==
  IF cell \in Cell8 THEN "ac_store_relaxed" ELSE "nbc_set_relaxed_atomic"

MPPublishRelaxed ==
  /\ pc[1] = "publish"
  /\ LET op == RelaxedPubOp(reg.cell)
         v == ValOf(reg.cell, 1)
     IN \E o \in Call(op, 1, reg.cell, None, v) :
          /\ Effect(op, 1, reg.cell, None, v, o)
          /\ reg' = [reg EXCEPT !.idxA = o.wr]
  /\ pc' = [pc EXCEPT ![1] = "done"]

NextMPRelaxed ==
  MPWrite \/ MPPublishRelaxed \/ MPObserve \/ MPFence \/ MPRead \/ MPInterfere

SpecMPRelaxed == InitMP /\ [][NextMPRelaxed]_vars

\* C17: with the flag published by ac_store_relaxed or nbc_set_relaxed_atomic,
\* nothing orders thread B after thread A's write of the ordinary variable:
\* whatever B has observed of the flag, by an acquire load and an acquire
\* fence too, its read of the variable may still return the old value.
C17_RelaxedGivesNoOrdering ==
  (pc[2] = "read") => \E o \in PlainRead(2, "D") : o.ret = 0

\* B's acquire load has returned the flag that A's relaxed store wrote, and
\* B has then read the old value of the variable
C17_Witness ==
  /\ pc[2] = "done"
  /\ reg.obs = "ac_load_acquire" /\ reg.idxA # 0
  /\ reg.b.rd = reg.idxA /\ reg.b.ret = 1
  /\ reg.d = 0

----------------------------------------------------------------------------
(* SpecWinner: every thread makes one call on the same cell, which holds   *)
(* 0: a compare-and-swap of some variant from 0 to the thread's own value, *)
(* or a store of that value.                                               *)
(*   thread t:  e = 0;  ok = cmpxchg(&cell, &e, t);   or   store(&cell, t) *)

InitWinner ==
  /\ mem = InitMem(U64(0), U64(0), 0, 0)
  /\ InitViews
  /\ pc = [t \in Thread |-> "call"]
  /\ \E cell \in {"X", "F"} :
       \E op \in [Thread -> CasOf(cell) \cup StoreOps(cell)] :
         reg = [cell |-> cell, op |-> op, out |-> [t \in Thread |-> None]]

WinnerCas ==
  \E t \in Thread :
    /\ pc[t] = "call"
    /\ reg.op[t] \in CasOps
    /\ LET e == ValOf(reg.cell, 0)
           v == ValOf(reg.cell, t)
       IN \E o \in Call(reg.op[t], t, reg.cell, e, v) :
            /\ Effect(reg.op[t], t, reg.cell, e, v, o)
            /\ pc' = [pc EXCEPT ![t] = IF o.ret THEN "won" ELSE "lost"]
            /\ reg' = [reg EXCEPT !.out[t] = o.out]

WinnerStore ==
  \E t \in Thread :
    /\ pc[t] = "call"
    /\ reg.op[t] \notin CasOps
    /\ LET v == ValOf(reg.cell, t)
       IN \E o \in Call(reg.op[t], t, reg.cell, None, v) :
            Effect(reg.op[t], t, reg.cell, None, v, o)
    /\ pc' = [pc EXCEPT ![t] = "stored"]
    /\ UNCHANGED reg

NextWinner == WinnerCas \/ WinnerStore

SpecWinner == InitWinner /\ [][NextWinner]_vars

\* the threads whose compare-and-swap has returned true, and false
Winners == { t \in Thread : pc[t] = "won" }
Losers == { t \in Thread : pc[t] = "lost" }

\* C18: of the compare-and-swaps of any variants on one cell with the same
\* expected value 0 and new values other than 0, while nothing writes 0 to the
\* cell, at most one returns true; each of the others returns false with in
\* *orig a value written to the cell that is not 0, or, for the weak variants
\* alone, possibly 0.
C18_SingleWinner ==
  /\ Cardinality(Winners) <= 1
  /\ \A t \in Winners : reg.out[t] = ValOf(reg.cell, 0)
  /\ \A t \in Losers :
       /\ reg.out[t] \in Written(reg.cell)
       /\ reg.op[t] \in Cas8 => reg.out[t] # ValOf(reg.cell, 0)
       /\ reg.out[t] = ValOf(reg.cell, 0) => reg.op[t] \in Cas64

\* every thread has made a compare-and-swap: one has won, and each of the
\* others has lost with the winner's value in *orig
C18_Witness ==
  /\ \A t \in Thread : reg.op[t] \in CasOps
  /\ Cardinality(Winners) = 1 /\ Cardinality(Losers) = NThreads - 1
  /\ \A t \in Losers : \A w \in Winners : reg.out[t] = ValOf(reg.cell, w)

====
